---- MODULE Spec2Model ----
(***************************************************************************)
(* Bifrost special-function lowering (src/panfrost/bifrost/bi_special.c):  *)
(* bi_emit_fexp2, bi_emit_flog2 and bi_emit_deriv build fixed instruction  *)
(* sequences and append them to the context's instruction stream.          *)
(***************************************************************************)
EXTENDS Integers, Naturals, Sequences, FiniteSets, TLC

(* ------------------------------ bounds --------------------------------- *)
\* number of lowering calls made on one context
MaxCalls == 2
\* number of distinct IR value indices an ALU source may name
MaxIR == 1
\* largest swizzle component selected by the ALU source
MaxSwizzle == 1
\* largest finite magnitude held by a lane of the quad
MaxFloat == 1
\* number of primitives handed to one st_draw_vbo call
MaxPrims == 2
\* largest vertex count of a primitive
MaxCount == 2
\* largest first vertex of a primitive
MaxStart == 1

(* --------------------------- value handles ----------------------------- *)
\* a zero-initialised source slot (unused operand)
NoIndex == [kind |-> "none", id |-> 0]
\* BIR_INDEX_ZERO
BIR_INDEX_ZERO == [kind |-> "zero", id |-> 0]
\* BIR_INDEX_CONSTANT | offset : reads the instruction's constant at a bit offset
BIR_INDEX_CONSTANT(offset) == [kind |-> "constant", id |-> offset]
\* BIR_INDEX_FAU | BIR_FAU_LANE_ID
BIR_FAU_LANE_ID == [kind |-> "fau_lane_id", id |-> 0]
\* the n-th temporary handed out by the context's allocator
bi_make_temp(n) == [kind |-> "temp", id |-> n]
\* resolve an IR source / destination reference to a builder handle
pan_src_index(src) == [kind |-> "ir", id |-> src]
pan_dest_index(dest) == [kind |-> "ir", id |-> dest]

(* ------------------------- 64-bit constants ---------------------------- *)
\* a u64 is kept as four 16-bit limbs, least significant first
RECURSIVE BitOr(_, _)
BitOr(a, b) ==
  IF a = 0 THEN b
  ELSE IF b = 0 THEN a
  ELSE (IF (a % 2 = 1) \/ (b % 2 = 1) THEN 1 ELSE 0) + 2 * BitOr(a \div 2, b \div 2)
RECURSIVE BitAnd(_, _)
BitAnd(a, b) ==
  IF a = 0 \/ b = 0 THEN 0
  ELSE (IF (a % 2 = 1) /\ (b % 2 = 1) THEN 1 ELSE 0) + 2 * BitAnd(a \div 2, b \div 2)
\* the 32-bit literal 0xHHHHLLLL widened to 64 bits
u32_literal(hi, lo) == <<lo, hi, 0, 0>>
\* a small non-negative integer widened to 64 bits
u64_small(n) == <<n % 65536, n \div 65536, 0, 0>>
\* a shift by 16 bits where 32 were meant
shl16(x) == <<0, x[1], x[2], x[3]>>
\* x << 32 on 64 bits
shl32(x) == <<0, 0, x[1], x[2]>>
\* x | y on 64 bits
or64(x, y) == [i \in 1..4 |-> BitOr(x[i], y[i])]
u64_zero == <<0, 0, 0, 0>>

(* --------------------------- instructions ------------------------------ *)
\* a bi_instruction with every field zero, as a C designated initializer
\* leaves the fields it does not name
bi_zero ==
  [ type |-> "0", op |-> "0", dest |-> NoIndex, dest_type |-> "0",
    src |-> <<NoIndex, NoIndex, NoIndex, NoIndex>>,
    src_types |-> <<"0", "0", "0", "0">>,
    src_neg |-> <<FALSE, FALSE, FALSE, FALSE>>,
    constant |-> u64_zero,
    swizzle |-> <<0, 0, 0, 0>>,
    round |-> "0",
    subgroup_sz |-> "0", lane_op_mod |-> "0", inactive_res |-> "0" ]

\* nir_type_float | bit_size
nir_type_float_sized(bits) ==
  IF bits = 16 THEN "nir_type_float16"
  ELSE IF bits = 32 THEN "nir_type_float32"
  ELSE "nir_type_float64"

(* --------------------------- ALU operations ---------------------------- *)
\* IR values an ALU source may name
IRIndices == 0..(MaxIR - 1)
\* IR values the destination may name: the source's own value (a register
\* used in place) or a value no source names
DestIndices(src) == {src, MaxIR}
Swizzles == 0..MaxSwizzle
BitSizes == {16, 32}
Archs == {6, 7}
\* nir_alu_instr as the lowering reads it: op, src[0].src, src[0].swizzle[0],
\* dest.dest and the destination's bit size
AluInstrs(ops, sizes) ==
  {i \in [op : ops, src : IRIndices, swizzle : Swizzles,
          dest : 0..MaxIR, bit_size : sizes] : i.dest \in DestIndices(i.src)}

VARIABLES
  arch,          \* ctx->arch
  temp_alloc,    \* number of temporaries the context has handed out
  instructions,  \* the instruction stream bi_emit appends to
  calls,         \* log of the lowering calls made on the context
  quad,          \* the source value each lane of the quad holds
  regs,          \* per lane, the values written to handles so far
  pc             \* stream position the quad executes next, 0 when idle

\* st_draw_vbo (src/mesa/state_tracker/st_draw.c)
VARIABLES
  draw_pc,       \* where st_draw_vbo stands: "idle", "loop" or "done"
  draw_args,     \* the arguments of the call and the st_context flag it reads
  draw_i,        \* the loop counter i
  draw_start,    \* the local start
  info,          \* the local pipe_draw_info
  drawn          \* the cso_draw_vbo calls issued so far

draw_vars == <<draw_pc, draw_args, draw_i, draw_start, info, drawn>>

vars == <<arch, temp_alloc, instructions, calls, quad, regs, pc, draw_vars>>

\* bi_emit: append one instruction to the stream
bi_emit(stream, ins) == Append(stream, ins)

(* ------------------------- exponential --------------------------------- *)
\* FMA_MSCALE T, X, 1.0, 0, 0x18
fexp2_mscale(ta, instr) ==
  [bi_zero EXCEPT
     !.type = "BI_FMA",
     !.op = "mscale",
     !.dest = bi_make_temp(ta),
     !.dest_type = "nir_type_float32",
     !.src = <<pan_src_index(instr.src), BIR_INDEX_CONSTANT(0),
               BIR_INDEX_ZERO, BIR_INDEX_CONSTANT(32)>>,
     !.src_types = <<"nir_type_float32", "nir_type_float32",
                     "nir_type_float32", "nir_type_int32">>,
     !.constant = or64(u32_literal(16256, 0), shl32(u64_small(24))),
     !.swizzle = <<instr.swizzle, 0, 0, 0>>]

\* F2I_RTE T, T
fexp2_f2i(ta, instr) ==
  [bi_zero EXCEPT
     !.type = "BI_CONVERT",
     !.dest = bi_make_temp(ta + 1),
     !.dest_type = "nir_type_int32",
     !.src = <<fexp2_mscale(ta, instr).dest, NoIndex, NoIndex, NoIndex>>,
     !.src_types = <<"nir_type_float32", "0", "0", "0">>,
     !.round = "BI_ROUND_NONE"]

\* FEXP2_FAST T, T, X
fexp2_fexp(ta, instr) ==
  [bi_zero EXCEPT
     !.type = "BI_SPECIAL_ADD",
     !.op = "BI_SPECIAL_EXP2_LOW",
     !.dest = pan_dest_index(instr.dest),
     !.dest_type = "nir_type_float32",
     !.src = <<fexp2_f2i(ta, instr).dest, fexp2_mscale(ta, instr).src[1],
               NoIndex, NoIndex>>,
     !.src_types = <<"nir_type_int32", "nir_type_float32", "0", "0">>,
     !.swizzle = <<0, instr.swizzle, 0, 0>>]

\* bi_emit_fexp2_new emitting the conversion before the pre-scale
bi_emit_fexp2_new_reordered(stream, ta, instr) ==
  bi_emit(bi_emit(bi_emit(stream, fexp2_f2i(ta, instr)),
                  fexp2_mscale(ta, instr)),
          fexp2_fexp(ta, instr))

\* the instructions bi_emit_fexp2_new emits, in order
bi_emit_fexp2_new(stream, ta, instr) ==
  bi_emit(bi_emit(bi_emit(stream, fexp2_mscale(ta, instr)),
                  fexp2_f2i(ta, instr)),
          fexp2_fexp(ta, instr))

\* bi_make_temp calls made by bi_emit_fexp2_new
fexp2_temps == 2

(* --------------------------- logarithm --------------------------------- *)
\* LOG_FREXPE X
flog2_frexpe(ta, instr) ==
  [bi_zero EXCEPT
     !.type = "BI_FREXP",
     !.op = "BI_FREXPE_LOG",
     !.dest = bi_make_temp(ta),
     !.dest_type = "nir_type_int32",
     !.src = <<pan_src_index(instr.src), NoIndex, NoIndex, NoIndex>>,
     !.src_types = <<"nir_type_float32", "0", "0", "0">>,
     !.swizzle = <<instr.swizzle, 0, 0, 0>>]

\* I32_TO_F32 m
flog2_i2f(ta, instr) ==
  [bi_zero EXCEPT
     !.type = "BI_CONVERT",
     !.dest = bi_make_temp(ta + 1),
     !.dest_type = "nir_type_float32",
     !.src = <<flog2_frexpe(ta, instr).dest, NoIndex, NoIndex, NoIndex>>,
     !.src_types = <<"nir_type_int32", "0", "0", "0">>,
     !.round = "BI_ROUND_RTZ"]

\* ADD_FREXPM (x-1), -1.0, X
flog2_x_minus_1(ta, instr) ==
  [bi_zero EXCEPT
     !.type = "BI_REDUCE_FMA",
     !.op = "BI_REDUCE_ADD_FREXPM",
     !.dest = bi_make_temp(ta + 2),
     !.dest_type = "nir_type_float32",
     !.src = <<BIR_INDEX_CONSTANT(0), pan_src_index(instr.src), NoIndex, NoIndex>>,
     !.src_types = <<"nir_type_float32", "nir_type_float32", "0", "0">>,
     !.constant = u32_literal(49024, 0),
     !.swizzle = <<0, instr.swizzle, 0, 0>>]

\* the table lookup reading the mantissa-minus-one temporary
flog2_help_chained(ta, instr) ==
  [bi_zero EXCEPT
     !.type = "BI_TABLE",
     !.op = "BI_TABLE_LOG2_U_OVER_U_1_LOW",
     !.dest = bi_make_temp(ta + 3),
     !.dest_type = "nir_type_float32",
     !.src = <<flog2_x_minus_1(ta, instr).dest, NoIndex, NoIndex, NoIndex>>,
     !.src_types = <<"nir_type_float32", "0", "0", "0">>]

\* FLOG2_HELP log2(x)/(x-1), x
flog2_help(ta, instr) ==
  [bi_zero EXCEPT
     !.type = "BI_TABLE",
     !.op = "BI_TABLE_LOG2_U_OVER_U_1_LOW",
     !.dest = bi_make_temp(ta + 3),
     !.dest_type = "nir_type_float32",
     !.src = <<pan_src_index(instr.src), NoIndex, NoIndex, NoIndex>>,
     !.src_types = <<"nir_type_float32", "0", "0", "0">>,
     !.swizzle = <<instr.swizzle, 0, 0, 0>>]

\* the final FMA with its first two operands exchanged
flog2_fma_swapped(ta, instr) ==
  [bi_zero EXCEPT
     !.type = "BI_FMA",
     !.dest = pan_dest_index(instr.dest),
     !.dest_type = "nir_type_float32",
     !.src = <<flog2_x_minus_1(ta, instr).dest, flog2_help(ta, instr).dest,
               flog2_i2f(ta, instr).dest, NoIndex>>,
     !.src_types = <<"nir_type_float32", "nir_type_float32",
                     "nir_type_float32", "0">>]

\* FMA log2(x)/(x - 1), (x - 1), M
flog2_fma(ta, instr) ==
  [bi_zero EXCEPT
     !.type = "BI_FMA",
     !.dest = pan_dest_index(instr.dest),
     !.dest_type = "nir_type_float32",
     !.src = <<flog2_help(ta, instr).dest, flog2_x_minus_1(ta, instr).dest,
               flog2_i2f(ta, instr).dest, NoIndex>>,
     !.src_types = <<"nir_type_float32", "nir_type_float32",
                     "nir_type_float32", "0">>]

\* bi_emit_flog2_new without the bi_emit of the table lookup
bi_emit_flog2_new_drop(stream, ta, instr) ==
  bi_emit(bi_emit(bi_emit(bi_emit(stream, flog2_frexpe(ta, instr)),
                          flog2_i2f(ta, instr)),
                  flog2_x_minus_1(ta, instr)),
          flog2_fma(ta, instr))

\* the instructions bi_emit_flog2_new emits, in order
bi_emit_flog2_new(stream, ta, instr) ==
  bi_emit(bi_emit(bi_emit(bi_emit(bi_emit(stream, flog2_frexpe(ta, instr)),
                                  flog2_i2f(ta, instr)),
                          flog2_x_minus_1(ta, instr)),
                  flog2_help(ta, instr)),
          flog2_fma(ta, instr))

\* bi_make_temp calls made by bi_emit_flog2_new
flog2_temps == 4

(* --------------------------- derivative -------------------------------- *)
\* current lane ID
deriv_cur_lane(ta, instr, a) ==
  [bi_zero EXCEPT
     !.type = "BI_MOV",
     !.dest = bi_make_temp(ta),
     !.dest_type = "nir_type_uint32",
     !.src = <<BIR_FAU_LANE_ID, NoIndex, NoIndex, NoIndex>>,
     !.src_types = <<"nir_type_uint32", "0", "0", "0">>]

\* constant of lane1: instr->op == nir_op_fddx ? 2 : 1
deriv_lane1_constant(instr) == IF instr.op = "nir_op_fddx" THEN 2 ELSE 1

\* the add constant chosen like the mask constant
deriv_lane2_constant_same(instr) == IF instr.op = "nir_op_fddx" THEN 2 ELSE 1

\* constant of lane2: instr->op == nir_op_fddx ? 1 : 2
deriv_lane2_constant(instr) == IF instr.op = "nir_op_fddx" THEN 1 ELSE 2

deriv_lane1(ta, instr, a) ==
  [bi_zero EXCEPT
     !.type = "BI_BITWISE",
     !.op = "BI_BITWISE_AND",
     !.dest = bi_make_temp(ta + 1),
     !.dest_type = "nir_type_uint32",
     !.src = <<deriv_cur_lane(ta, instr, a).dest, BIR_INDEX_CONSTANT(0),
               BIR_INDEX_ZERO, NoIndex>>,
     !.src_types = <<"nir_type_uint32", "nir_type_uint32", "nir_type_uint8", "0">>,
     !.constant = u64_small(deriv_lane1_constant(instr))]

deriv_lane2(ta, instr, a) ==
  [bi_zero EXCEPT
     !.type = "BI_IMATH",
     !.op = "BI_IMATH_ADD",
     !.dest = bi_make_temp(ta + 2),
     !.dest_type = "nir_type_uint32",
     !.src = <<deriv_lane1(ta, instr, a).dest, BIR_INDEX_CONSTANT(0),
               BIR_INDEX_ZERO, NoIndex>>,
     !.src_types = <<"nir_type_uint32", "nir_type_uint32", "nir_type_uint32", "0">>,
     !.constant = u64_small(deriv_lane2_constant(instr))]

\* ctx->arch == 6 ? BI_SPECIAL_CLPER_V6 : BI_SPECIAL_CLPER_V7
deriv_clper_op(a) == IF a = 6 THEN "BI_SPECIAL_CLPER_V6" ELSE "BI_SPECIAL_CLPER_V7"

\* the first exchange addressed by the second lane ID for the vertical direction
deriv_clper1_swapping(ta, instr, a) ==
  [bi_zero EXCEPT
     !.type = "BI_SPECIAL_ADD",
     !.op = deriv_clper_op(a),
     !.subgroup_sz = "BI_SUBGROUP_SUBGROUP4",
     !.lane_op_mod = "BI_LANE_OP_NONE",
     !.inactive_res = "BI_INACTIVE_RESULT_ZERO",
     !.dest = bi_make_temp(ta + 3),
     !.dest_type = "nir_type_uint32",
     !.src = <<pan_src_index(instr.src),
               IF instr.op = "nir_op_fddx" THEN deriv_lane1(ta, instr, a).dest
               ELSE deriv_lane2(ta, instr, a).dest,
               NoIndex, NoIndex>>,
     !.src_types = <<"nir_type_uint32", "nir_type_uint32", "0", "0">>,
     !.swizzle = <<instr.swizzle, 0, 0, 0>>]

deriv_clper1(ta, instr, a) ==
  [bi_zero EXCEPT
     !.type = "BI_SPECIAL_ADD",
     !.op = deriv_clper_op(a),
     !.subgroup_sz = "BI_SUBGROUP_SUBGROUP4",
     !.lane_op_mod = "BI_LANE_OP_NONE",
     !.inactive_res = "BI_INACTIVE_RESULT_ZERO",
     !.dest = bi_make_temp(ta + 3),
     !.dest_type = "nir_type_uint32",
     !.src = <<pan_src_index(instr.src), deriv_lane1(ta, instr, a).dest,
               NoIndex, NoIndex>>,
     !.src_types = <<"nir_type_uint32", "nir_type_uint32", "0", "0">>,
     !.swizzle = <<instr.swizzle, 0, 0, 0>>]

\* the second exchange addressed by the first lane ID
deriv_clper2_lane1(ta, instr, a) ==
  [bi_zero EXCEPT
     !.type = "BI_SPECIAL_ADD",
     !.op = deriv_clper_op(a),
     !.subgroup_sz = "BI_SUBGROUP_SUBGROUP4",
     !.lane_op_mod = "BI_LANE_OP_NONE",
     !.inactive_res = "BI_INACTIVE_RESULT_ZERO",
     !.dest = bi_make_temp(ta + 4),
     !.dest_type = "nir_type_uint32",
     !.src = <<pan_src_index(instr.src), deriv_lane1(ta, instr, a).dest,
               NoIndex, NoIndex>>,
     !.src_types = <<"nir_type_uint32", "nir_type_uint32", "0", "0">>,
     !.swizzle = <<instr.swizzle, 0, 0, 0>>]

deriv_clper2(ta, instr, a) ==
  [bi_zero EXCEPT
     !.type = "BI_SPECIAL_ADD",
     !.op = deriv_clper_op(a),
     !.subgroup_sz = "BI_SUBGROUP_SUBGROUP4",
     !.lane_op_mod = "BI_LANE_OP_NONE",
     !.inactive_res = "BI_INACTIVE_RESULT_ZERO",
     !.dest = bi_make_temp(ta + 4),
     !.dest_type = "nir_type_uint32",
     !.src = <<pan_src_index(instr.src), deriv_lane2(ta, instr, a).dest,
               NoIndex, NoIndex>>,
     !.src_types = <<"nir_type_uint32", "nir_type_uint32", "0", "0">>,
     !.swizzle = <<instr.swizzle, 0, 0, 0>>]

\* the final ADD with its operands exchanged
deriv_sub_swapped(ta, instr, a) ==
  [bi_zero EXCEPT
     !.type = "BI_ADD",
     !.src = <<deriv_clper1(ta, instr, a).dest, deriv_clper2(ta, instr, a).dest,
               NoIndex, NoIndex>>,
     !.src_types = <<nir_type_float_sized(instr.bit_size),
                     nir_type_float_sized(instr.bit_size), "0", "0">>,
     !.src_neg = <<FALSE, TRUE, FALSE, FALSE>>,
     !.dest = pan_dest_index(instr.dest),
     !.dest_type = nir_type_float_sized(instr.bit_size)]

\* the final ADD without the negate flag
deriv_sub_no_neg(ta, instr, a) ==
  [bi_zero EXCEPT
     !.type = "BI_ADD",
     !.src = <<deriv_clper2(ta, instr, a).dest, deriv_clper1(ta, instr, a).dest,
               NoIndex, NoIndex>>,
     !.src_types = <<nir_type_float_sized(instr.bit_size),
                     nir_type_float_sized(instr.bit_size), "0", "0">>,
     !.dest = pan_dest_index(instr.dest),
     !.dest_type = nir_type_float_sized(instr.bit_size)]

deriv_sub(ta, instr, a) ==
  [bi_zero EXCEPT
     !.type = "BI_ADD",
     !.src = <<deriv_clper2(ta, instr, a).dest, deriv_clper1(ta, instr, a).dest,
               NoIndex, NoIndex>>,
     !.src_types = <<nir_type_float_sized(instr.bit_size),
                     nir_type_float_sized(instr.bit_size), "0", "0">>,
     !.src_neg = <<FALSE, TRUE, FALSE, FALSE>>,
     !.dest = pan_dest_index(instr.dest),
     !.dest_type = nir_type_float_sized(instr.bit_size)]

\* bi_emit_deriv putting its instructions at the head of the block
bi_emit_deriv_new_front(stream, ta, instr, a) ==
  <<deriv_cur_lane(ta, instr, a), deriv_lane1(ta, instr, a),
    deriv_lane2(ta, instr, a), deriv_clper1(ta, instr, a),
    deriv_clper2(ta, instr, a), deriv_sub(ta, instr, a)>> \o stream

\* the instructions bi_emit_deriv emits, in order
bi_emit_deriv_new(stream, ta, instr, a) ==
  bi_emit(bi_emit(bi_emit(bi_emit(bi_emit(bi_emit(stream,
    deriv_cur_lane(ta, instr, a)),
    deriv_lane1(ta, instr, a)),
    deriv_lane2(ta, instr, a)),
    deriv_clper1(ta, instr, a)),
    deriv_clper2(ta, instr, a)),
    deriv_sub(ta, instr, a))

\* bi_make_temp calls made by bi_emit_deriv
deriv_temps == 5

(* ----------------------- instruction semantics ------------------------- *)
\* the lanes of a quad
Lanes == 0..3
\* a register value: a finite number (lane IDs and small floats, which the
\* float formats hold exactly), an infinity with its sign, or a NaN
Fin(n) == [cls |-> "fin", v |-> n]
PosInf == [cls |-> "inf", v |-> 1]
NaN == [cls |-> "nan", v |-> 0]
Undef == [cls |-> "undef", v |-> 0]
NegInf == [cls |-> "inf", v |-> -1]
FloatVals == {Fin(n) : n \in 0..MaxFloat} \cup {PosInf, NegInf, NaN}

\* IEEE-754 negation and addition on these values
FNeg(x) == IF x.cls \in {"fin", "inf"} THEN [x EXCEPT !.v = 0 - x.v] ELSE x
FAdd(x, y) ==
  IF x.cls = "undef" \/ y.cls = "undef" THEN Undef
  ELSE IF x.cls = "nan" \/ y.cls = "nan" THEN NaN
  ELSE IF x.cls = "inf" /\ y.cls = "inf" THEN (IF x.v = y.v THEN x ELSE NaN)
  ELSE IF x.cls = "inf" THEN x
  ELSE IF y.cls = "inf" THEN y
  ELSE Fin(x.v + y.v)

\* the 32-bit field of a constant payload at a bit offset
ConstantField(c, offset) == c[(offset \div 16) + 1] + 65536 * c[(offset \div 16) + 2]

\* the register file of each lane once the source operand is loaded
LoadQuad(h, q) == [l \in Lanes |-> (h :> q[l])]

\* the value operand s of ins has in lane l
ReadSrc(ins, s, l, r) ==
  LET h == ins.src[s] IN
  IF h.kind = "fau_lane_id" THEN Fin(l)
  ELSE IF h.kind = "zero" THEN Fin(0)
  ELSE IF h.kind = "constant" THEN Fin(ConstantField(ins.constant, h.id))
  ELSE IF h \in DOMAIN r[l] THEN r[l][h]
  ELSE Undef

\* operand s with its negate flag applied
ReadNeg(ins, s, l, r) ==
  IF ins.src_neg[s] THEN FNeg(ReadSrc(ins, s, l, r)) ELSE ReadSrc(ins, s, l, r)

RECURSIVE Pow2(_)
Pow2(n) == IF n = 0 THEN 1 ELSE 2 * Pow2(n - 1)

\* cross-lane exchange: the value of operand 1 in the lane operand 2 names,
\* zero when that lane is not an active lane of the quad
Clper(ins, l, r) ==
  LET n == ReadSrc(ins, 2, l, r) IN
  IF n.cls = "fin" /\ n.v \in Lanes THEN ReadSrc(ins, 1, n.v, r) ELSE Fin(0)

\* the value ins writes to its destination in lane l
Result(ins, l, r) ==
  LET a == ReadSrc(ins, 1, l, r)
      b == ReadSrc(ins, 2, l, r)
      c == ReadSrc(ins, 3, l, r) IN
  IF ins.type = "BI_MOV" THEN a
  ELSE IF ins.type = "BI_BITWISE" /\ ins.op = "BI_BITWISE_AND" THEN
    (IF a.cls = "fin" /\ b.cls = "fin" /\ c.cls = "fin" /\ a.v >= 0 /\ b.v >= 0 /\ c.v >= 0
     THEN Fin(BitAnd(a.v, b.v * Pow2(c.v))) ELSE Undef)
  ELSE IF ins.type = "BI_IMATH" /\ ins.op = "BI_IMATH_ADD" THEN
    (IF a.cls = "fin" /\ b.cls = "fin" THEN Fin(a.v + b.v) ELSE Undef)
  ELSE IF ins.type = "BI_SPECIAL_ADD"
          /\ ins.op \in {"BI_SPECIAL_CLPER_V6", "BI_SPECIAL_CLPER_V7"} THEN
    Clper(ins, l, r)
  ELSE IF ins.type = "BI_ADD" THEN
    FAdd(ReadNeg(ins, 1, l, r), ReadNeg(ins, 2, l, r))
  ELSE Undef

\* every lane of the quad executes ins and writes its destination
ExecInstr(ins, r) ==
  LET w(l) == l :> ((ins.dest :> Result(ins, l, r)) @@ r[l])
  IN w(0) @@ w(1) @@ w(2) @@ w(3)

(* ---------------------------- st_draw_vbo ------------------------------ *)
\* struct _mesa_prim as st_draw_vbo reads it
Modes == {4}
Prims == [count : 0..MaxCount, start : 0..MaxStart, mode : Modes,
          basevertex : {0}, draw_id : {0}]
PrimArrays == UNION {[1..n -> Prims] : n \in 0..MaxPrims}

\* the ib argument: NULL, indices in user memory (ib->obj == NULL), or
\* indices in a buffer object whose st_buffer_object has or lacks a buffer
NoIb == [present |-> FALSE, obj |-> FALSE, buffer |-> FALSE, ptr |-> 0,
         index_size_shift |-> 0]
IndexBuffers ==
  {NoIb} \cup
  {[present |-> TRUE, obj |-> FALSE, buffer |-> FALSE, ptr |-> 2, index_size_shift |-> 1],
   [present |-> TRUE, obj |-> TRUE, buffer |-> TRUE, ptr |-> 2, index_size_shift |-> 1],
   [present |-> TRUE, obj |-> TRUE, buffer |-> FALSE, ptr |-> 2, index_size_shift |-> 1]}

\* the arguments of st_draw_vbo and st->draw_needs_minmax_index
DrawArgs ==
  [prims : PrimArrays, ib : IndexBuffers, index_bounds_valid : BOOLEAN,
   primitive_restart : BOOLEAN, restart_index : {3},
   min_index : {0}, max_index : {1},
   num_instances : {1}, base_instance : {0},
   draw_needs_minmax_index : BOOLEAN]
NoDrawArgs ==
  [prims |-> <<>>, ib |-> NoIb, index_bounds_valid |-> FALSE,
   primitive_restart |-> FALSE, restart_index |-> 0, min_index |-> 0,
   max_index |-> 0, num_instances |-> 0, base_instance |-> 0,
   draw_needs_minmax_index |-> FALSE]

\* what vbo_get_minmax_indices may store in min_index and max_index
MinMaxResults == {<<0, 1>>, <<1, 2>>}

\* the fields of pipe_draw_info st_draw_vbo writes; a field not written yet
\* is shown as 0 / FALSE
InfoUnset ==
  [primitive_restart |-> FALSE, restart_index |-> 0, start_instance |-> 0,
   instance_count |-> 0, index_size |-> 0, index_bounds_valid |-> FALSE,
   min_index |-> 0, max_index |-> 0, has_user_indices |-> FALSE,
   index |-> "none", mode |-> 0, index_bias |-> 0, drawid |-> 0]

\* translate_prim
translate_prim(prim) == prim

\* pointer_to_offset(ib->ptr) >> ib->index_size_shift
IndexStart(ib) == ib.ptr \div Pow2(ib.index_size_shift)

\* info after the initialisation and the index-buffer branch; mm is the
\* index range in force, ibv whether it is known, unset the value the
\* never-written index_bounds_valid happens to hold when ib is NULL
InfoAfterSetup(a, mm, ibv, unset) ==
  IF a.ib.present THEN
    [InfoUnset EXCEPT
       !.start_instance = a.base_instance,
       !.instance_count = a.num_instances,
       !.index_size = Pow2(a.ib.index_size_shift),
       !.index_bounds_valid = ibv,
       !.min_index = mm[1],
       !.max_index = mm[2],
       !.has_user_indices = ~a.ib.obj,
       !.index = IF ~a.ib.obj THEN "user"
                 ELSE IF a.ib.buffer THEN "resource" ELSE "null_resource",
       !.restart_index = a.restart_index,
       !.primitive_restart = a.primitive_restart]
  ELSE
    [InfoUnset EXCEPT
       !.start_instance = a.base_instance,
       !.instance_count = a.num_instances,
       !.index_size = 0,
       !.index_bounds_valid = unset,
       !.has_user_indices = FALSE]

\* st_draw_vbo up to the loop: prepare_draw, the initialisation of info and
\* the index-buffer branch, which returns when the buffer object has no
\* backing resource
st_draw_vbo_begin(a) ==
  /\ draw_pc = "idle"
  /\ draw_args' = a
  /\ draw_i' = 0
  /\ drawn' = drawn
  /\ \E mm \in (IF a.ib.present /\ ~a.index_bounds_valid /\ a.draw_needs_minmax_index
                THEN MinMaxResults ELSE {<<a.min_index, a.max_index>>}) :
     \E unset \in (IF a.ib.present THEN {FALSE} ELSE BOOLEAN) :
       LET ibv == a.index_bounds_valid \/ a.draw_needs_minmax_index IN
       IF a.ib.present /\ a.ib.obj /\ ~a.ib.buffer THEN
         \* return before restart_index and primitive_restart are copied
         /\ info' = [InfoAfterSetup(a, mm, ibv, unset) EXCEPT
                       !.restart_index = 0, !.primitive_restart = FALSE]
         /\ draw_start' = 0
         /\ draw_pc' = "done"
       ELSE
         /\ info' = InfoAfterSetup(a, mm, ibv, unset)
         /\ draw_start' = (IF a.ib.present /\ a.ib.obj THEN IndexStart(a.ib) ELSE 0)
         /\ draw_pc' = "loop"
  /\ UNCHANGED <<arch, temp_alloc, instructions, calls, quad, regs, pc>>

\* a cso_draw_vbo call: the info passed, the draw passed, and the loop
\* counter at the call
CsoDrawVbo(inf, draw, i) == [info |-> inf, draw |-> draw, i |-> i]

\* the loop iteration without the test that skips a primitive of count 0
st_draw_vbo_iter_no_skip ==
  /\ draw_pc = "loop"
  /\ draw_i < Len(draw_args.prims)
  /\ LET prim == draw_args.prims[draw_i + 1]
         draw == [count |-> prim.count, start |-> draw_start + prim.start]
         inf == [info EXCEPT
                   !.mode = translate_prim(prim.mode),
                   !.index_bias = prim.basevertex,
                   !.drawid = prim.draw_id,
                   !.min_index = IF ~draw_args.ib.present THEN draw.start ELSE @,
                   !.max_index = IF ~draw_args.ib.present
                                 THEN draw.start + draw.count - 1 ELSE @]
     IN /\ info' = inf
        /\ drawn' = Append(drawn, CsoDrawVbo(inf, draw, draw_i))
  /\ draw_i' = draw_i + 1
  /\ UNCHANGED <<draw_pc, draw_args, draw_start>>
  /\ UNCHANGED <<arch, temp_alloc, instructions, calls, quad, regs, pc>>

\* one iteration of the loop over the primitives
st_draw_vbo_iter ==
  /\ draw_pc = "loop"
  /\ draw_i < Len(draw_args.prims)
  /\ LET prim == draw_args.prims[draw_i + 1]
         draw == [count |-> prim.count, start |-> draw_start + prim.start]
         inf == [info EXCEPT
                   !.mode = translate_prim(prim.mode),
                   !.index_bias = prim.basevertex,
                   !.drawid = prim.draw_id,
                   !.min_index = IF ~draw_args.ib.present THEN draw.start ELSE @,
                   !.max_index = IF ~draw_args.ib.present
                                 THEN draw.start + draw.count - 1 ELSE @]
     IN IF prim.count = 0
        THEN UNCHANGED <<info, drawn>>
        ELSE /\ info' = inf
             /\ drawn' = Append(drawn, CsoDrawVbo(inf, draw, draw_i))
  /\ draw_i' = draw_i + 1
  /\ UNCHANGED <<draw_pc, draw_args, draw_start>>
  /\ UNCHANGED <<arch, temp_alloc, instructions, calls, quad, regs, pc>>

\* the loop ends and st_draw_vbo returns
st_draw_vbo_return ==
  /\ draw_pc = "loop"
  /\ draw_i >= Len(draw_args.prims)
  /\ draw_pc' = "done"
  /\ UNCHANGED <<draw_args, draw_i, draw_start, info, drawn>>
  /\ UNCHANGED <<arch, temp_alloc, instructions, calls, quad, regs, pc>>

StDrawVbo == draw_pc = "idle" /\ \E a \in DrawArgs : st_draw_vbo_begin(a)

NextDraw == StDrawVbo \/ st_draw_vbo_iter \/ st_draw_vbo_return

(* ----------------------------- lowering -------------------------------- *)
\* one entry of the call log: the ALU operation, where its instructions
\* start in the stream and the allocator's counter when it was called
CallEntry(instr) ==
  [instr |-> instr, first |-> Len(instructions) + 1, temp0 |-> temp_alloc]

Init ==
  /\ arch \in Archs
  /\ temp_alloc = 0
  /\ instructions = <<>>
  /\ calls = <<>>
  /\ quad = [l \in Lanes |-> Fin(0)]
  /\ regs = [l \in Lanes |-> <<>>]
  /\ pc = 0
  /\ draw_pc = "idle"
  /\ draw_args = NoDrawArgs
  /\ draw_i = 0
  /\ draw_start = 0
  /\ info = InfoUnset
  /\ drawn = <<>>

bi_emit_fexp2(instr) ==
  /\ pc = 0
  /\ Len(calls) < MaxCalls
  /\ instructions' = bi_emit_fexp2_new(instructions, temp_alloc, instr)
  /\ temp_alloc' = temp_alloc + fexp2_temps
  /\ calls' = Append(calls, CallEntry(instr))
  /\ UNCHANGED <<arch, quad, regs, pc, draw_vars>>

bi_emit_flog2(instr) ==
  /\ pc = 0
  /\ Len(calls) < MaxCalls
  /\ instructions' = bi_emit_flog2_new(instructions, temp_alloc, instr)
  /\ temp_alloc' = temp_alloc + flog2_temps
  /\ calls' = Append(calls, CallEntry(instr))
  /\ UNCHANGED <<arch, quad, regs, pc, draw_vars>>

bi_emit_deriv(instr) ==
  /\ pc = 0
  /\ Len(calls) < MaxCalls
  /\ instructions' = bi_emit_deriv_new(instructions, temp_alloc, instr, arch)
  /\ temp_alloc' = temp_alloc + deriv_temps
  /\ calls' = Append(calls, CallEntry(instr))
  /\ UNCHANGED <<arch, quad, regs, pc, draw_vars>>

EmitFexp2 == \E instr \in AluInstrs({"nir_op_fexp2"}, {32}) : bi_emit_fexp2(instr)
EmitFlog2 == \E instr \in AluInstrs({"nir_op_flog2"}, {32}) : bi_emit_flog2(instr)
EmitDeriv == \E instr \in AluInstrs({"nir_op_fddx", "nir_op_fddy"}, BitSizes) : bi_emit_deriv(instr)

Next == EmitFexp2 \/ EmitFlog2 \/ EmitDeriv

Spec == Init /\ [][Next]_vars

\* st_draw_vbo alone
SpecDraw == Init /\ [][NextDraw]_vars

(* ------------------ a quad executing a derivative ---------------------- *)
IsDeriv(c) == c.instr.op \in {"nir_op_fddx", "nir_op_fddy"}

\* the quad is loaded with the source operand's value in each lane and starts
\* on the first instruction of the derivative lowered last
ExecStart ==
  /\ pc = 0
  /\ Len(calls) >= 1
  /\ IsDeriv(calls[Len(calls)])
  /\ \E q \in [Lanes -> FloatVals] :
       /\ quad' = q
       /\ regs' = LoadQuad(pan_src_index(calls[Len(calls)].instr.src), q)
  /\ pc' = calls[Len(calls)].first
  /\ UNCHANGED <<arch, temp_alloc, instructions, calls, draw_vars>>

\* the four lanes execute the next instruction in lockstep
ExecStep ==
  /\ pc >= 1
  /\ pc <= Len(instructions)
  /\ regs' = ExecInstr(instructions[pc], regs)
  /\ pc' = pc + 1
  /\ UNCHANGED <<arch, temp_alloc, instructions, calls, quad, draw_vars>>

NextExec == (Len(calls) = 0 /\ EmitDeriv) \/ ExecStart \/ ExecStep

SpecExec == Init /\ [][NextExec]_vars

(* ------------------------ reading the call log ------------------------- *)
CallIds == 1..Len(calls)
\* stream position of the last instruction call k emitted
CallEnd(k) == IF k < Len(calls) THEN calls[k + 1].first - 1 ELSE Len(instructions)
\* the instructions call k emitted
Seg(k) == SubSeq(instructions, calls[k].first, CallEnd(k))
\* the temporaries allocated during call k
TempsOf(k) ==
  {bi_make_temp(n) : n \in calls[k].temp0 ..
     ((IF k < Len(calls) THEN calls[k + 1].temp0 ELSE temp_alloc) - 1)}
IsFexp2(k) == calls[k].instr.op = "nir_op_fexp2"
IsFlog2(k) == calls[k].instr.op = "nir_op_flog2"
IsFddx(k) == calls[k].instr.op = "nir_op_fddx"
IsFddy(k) == calls[k].instr.op = "nir_op_fddy"
SrcSlots == 1..4

(* C1: every exponential lowering appends exactly 3 instructions, every
   logarithm lowering exactly 5 and every derivative lowering exactly 6,
   whatever the source, swizzle, destination, bit size and direction *)
Thm_C1 ==
  \A k \in CallIds :
    Len(Seg(k)) = (IF IsFexp2(k) THEN 3 ELSE IF IsFlog2(k) THEN 5 ELSE 6)

Wit_C1 ==
  /\ Len(calls) = 2
  /\ IsFlog2(1) /\ Len(Seg(1)) = 5
  /\ IsFddy(2) /\ Len(Seg(2)) = 6

(* C2: within one lowering every temporary it allocated is the destination
   of exactly one emitted instruction, and every source operand that is a
   temporary is the destination of an instruction emitted strictly earlier
   in the same lowering *)
Thm_C2 ==
  \A k \in CallIds :
    LET g == Seg(k)
        dests == [i \in 1..Len(g) |-> g[i].dest] IN
    /\ \A t \in TempsOf(k) :
         Cardinality({i \in 1..Len(g) : dests[i] = t}) = 1
    /\ \A i \in 1..Len(g) : \A s \in SrcSlots :
         g[i].src[s].kind = "temp" =>
           \E j \in 1..(i - 1) : dests[j] = g[i].src[s]

Wit_C2 ==
  /\ Len(calls) = 2
  /\ IsFexp2(1) /\ Cardinality(TempsOf(1)) = 2
  /\ IsFddx(2) /\ Cardinality(TempsOf(2)) = 5
  /\ Seg(2)[6].src[1].kind = "temp"

(* C3 as stated: in the logarithm lowering the table lookup (4th) takes the
   destination of the mantissa-minus-one instruction (3rd) as its source *)
Orig_C3 ==
  \A k \in CallIds : IsFlog2(k) =>
    LET g == Seg(k) IN
    /\ g[3].type = "BI_REDUCE_FMA"
    /\ g[4].type = "BI_TABLE"
    /\ g[4].src[1] = g[3].dest

(* C3 amended: in the logarithm lowering the table lookup (4th, BI_TABLE /
   LOG2_U_OVER_U_1_LOW) takes the original IR source, with the ALU source's
   swizzle component, as its only operand: the same operand the
   mantissa-minus-one instruction (3rd, BI_REDUCE_FMA / ADD_FREXPM) reads as
   its second source, and not that instruction's destination *)
Thm_C3 ==
  \A k \in CallIds : IsFlog2(k) =>
    LET g == Seg(k) IN
    /\ g[3].type = "BI_REDUCE_FMA"
    /\ g[3].op = "BI_REDUCE_ADD_FREXPM"
    /\ g[4].type = "BI_TABLE"
    /\ g[4].op = "BI_TABLE_LOG2_U_OVER_U_1_LOW"
    /\ g[4].src = <<pan_src_index(calls[k].instr.src), NoIndex, NoIndex, NoIndex>>
    /\ g[4].swizzle[1] = calls[k].instr.swizzle
    /\ g[4].src[1] = g[3].src[2]
    /\ g[4].swizzle[1] = g[3].swizzle[2]
    /\ \A s \in SrcSlots : g[4].src[s] # g[3].dest

Wit_C3 ==
  /\ Len(calls) >= 1
  /\ IsFlog2(1)
  /\ calls[1].instr.swizzle = 1
  /\ calls[1].instr.dest # calls[1].instr.src
  /\ Seg(1)[4].src[1] = pan_src_index(calls[1].instr.src)
  /\ Seg(1)[3].dest = bi_make_temp(2)

(* C4: in the logarithm lowering the 5th instruction is an FMA without
   modifiers that writes the IR destination; its three sources are, in
   order, the destinations of the table lookup (4th), of the
   mantissa-minus-one instruction (3rd) and of the int-to-float conversion
   (2nd) of the extracted exponent (1st), all typed float32 *)
Thm_C4 ==
  \A k \in CallIds : IsFlog2(k) =>
    LET g == Seg(k) IN
    /\ g[5].type = "BI_FMA"
    /\ g[5].op = bi_zero.op
    /\ g[5].round = bi_zero.round
    /\ g[5].src_neg = bi_zero.src_neg
    /\ g[5].constant = bi_zero.constant
    /\ g[5].dest = pan_dest_index(calls[k].instr.dest)
    /\ g[5].dest_type = "nir_type_float32"
    /\ g[4].type = "BI_TABLE"
    /\ g[3].type = "BI_REDUCE_FMA"
    /\ g[2].type = "BI_CONVERT" /\ g[2].dest_type = "nir_type_float32"
    /\ g[1].type = "BI_FREXP" /\ g[2].src[1] = g[1].dest
    /\ g[5].src = <<g[4].dest, g[3].dest, g[2].dest, NoIndex>>
    /\ g[5].src_types =
         <<"nir_type_float32", "nir_type_float32", "nir_type_float32", "0">>

Wit_C4 ==
  /\ Len(calls) = 2
  /\ IsFlog2(2)
  /\ Seg(2)[5].type = "BI_FMA"
  /\ Seg(2)[5].dest = pan_dest_index(1)
  /\ Seg(2)[5].src[1].kind = "temp"

(* C5: in the exponential lowering the 2nd instruction is a float32 to
   int32 conversion of the pre-scale result whose rounding mode is
   explicitly round-to-nearest-even *)
Claim_C5 ==
  \A k \in CallIds : IsFexp2(k) =>
    LET g == Seg(k) IN
    /\ g[2].type = "BI_CONVERT"
    /\ g[2].src[1] = g[1].dest
    /\ g[2].src_types[1] = "nir_type_float32"
    /\ g[2].dest_type = "nir_type_int32"
    /\ g[2].round = "BI_ROUND_RTE"

(* C6: in the derivative lowering the 2nd instruction ANDs the lane-ID
   temporary with constant 2 (horizontal) or 1 (vertical) and the 3rd adds
   to the 2nd's result the complementary constant 1 (horizontal) or 2
   (vertical); mask and add constants are never equal *)
Thm_C6 ==
  \A k \in CallIds : (IsFddx(k) \/ IsFddy(k)) =>
    LET g == Seg(k)
        mask == ConstantField(g[2].constant, g[2].src[2].id)
        add == ConstantField(g[3].constant, g[3].src[2].id) IN
    /\ g[1].type = "BI_MOV" /\ g[1].src[1] = BIR_FAU_LANE_ID
    /\ g[2].type = "BI_BITWISE" /\ g[2].op = "BI_BITWISE_AND"
    /\ g[2].src[1] = g[1].dest
    /\ g[2].src[2].kind = "constant"
    /\ g[2].src[3] = BIR_INDEX_ZERO
    /\ g[3].type = "BI_IMATH" /\ g[3].op = "BI_IMATH_ADD"
    /\ g[3].src[1] = g[2].dest
    /\ g[3].src[2].kind = "constant"
    /\ mask = (IF IsFddx(k) THEN 2 ELSE 1)
    /\ add = (IF IsFddx(k) THEN 1 ELSE 2)
    /\ {mask, add} = {1, 2}
    /\ mask # add

Wit_C6 ==
  /\ Len(calls) = 2
  /\ IsFddx(1) /\ Seg(1)[2].constant = u64_small(2) /\ Seg(1)[3].constant = u64_small(1)
  /\ IsFddy(2) /\ Seg(2)[2].constant = u64_small(1) /\ Seg(2)[3].constant = u64_small(2)

(* C7: in the derivative lowering the 4th and 5th instructions are
   cross-lane exchanges reading the same IR source with the same swizzle
   component, addressed by the 2nd and the 3rd instruction's lane ID
   respectively; both carry the v6 sub-opcode when arch is 6 and the v7
   sub-opcode otherwise, zero as inactive-lane result, no lane-operation
   modifier and subgroup size 4 *)
Thm_C7 ==
  \A k \in CallIds : (IsFddx(k) \/ IsFddy(k)) =>
    LET g == Seg(k) IN
    \A n \in {4, 5} :
      /\ g[n].type = "BI_SPECIAL_ADD"
      /\ g[n].op = (IF arch = 6 THEN "BI_SPECIAL_CLPER_V6" ELSE "BI_SPECIAL_CLPER_V7")
      /\ g[n].src[1] = pan_src_index(calls[k].instr.src)
      /\ g[n].swizzle[1] = calls[k].instr.swizzle
      /\ g[n].src[2] = g[n - 2].dest
      /\ g[n].src[2].kind = "temp"
      /\ g[n].inactive_res = "BI_INACTIVE_RESULT_ZERO"
      /\ g[n].lane_op_mod = "BI_LANE_OP_NONE"
      /\ g[n].subgroup_sz = "BI_SUBGROUP_SUBGROUP4"

Wit_C7 ==
  /\ arch = 7
  /\ Len(calls) >= 1
  /\ IsFddy(1)
  /\ Seg(1)[4].op = "BI_SPECIAL_CLPER_V7"
  /\ Seg(1)[5].src[2] = bi_make_temp(2)

(* C8: in the derivative lowering the 6th instruction is an ADD writing the
   IR destination; its first operand is the 5th instruction's result, its
   second the 4th instruction's result, negated; only the second operand is
   negated; destination and both operands have the float type of the
   destination's bit size *)
Thm_C8 ==
  \A k \in CallIds : (IsFddx(k) \/ IsFddy(k)) =>
    LET g == Seg(k)
        type == nir_type_float_sized(calls[k].instr.bit_size) IN
    /\ g[6].type = "BI_ADD"
    /\ g[6].dest = pan_dest_index(calls[k].instr.dest)
    /\ g[6].src = <<g[5].dest, g[4].dest, NoIndex, NoIndex>>
    /\ g[5].dest # g[4].dest
    /\ g[6].src_neg = <<FALSE, TRUE, FALSE, FALSE>>
    /\ g[6].dest_type = type
    /\ g[6].src_types = <<type, type, "0", "0">>
    /\ type = (IF calls[k].instr.bit_size = 16 THEN "nir_type_float16"
               ELSE "nir_type_float32")

Wit_C8 ==
  /\ Len(calls) >= 1
  /\ IsFddx(1)
  /\ calls[1].instr.bit_size = 16
  /\ Seg(1)[6].dest_type = "nir_type_float16"
  /\ Seg(1)[6].src_neg[2]

(* ---------------------- the executed derivative ------------------------ *)
\* the quad has executed the whole stream
Done == pc = Len(instructions) + 1 /\ Len(calls) >= 1
\* every lane holds the same source value
QuadConstant == \A l \in Lanes : quad[l] = quad[0]
\* what lane l holds in the IR destination
Out(l) == regs[l][pan_dest_index(calls[Len(calls)].instr.dest)]

(* C9 as stated: on a fully active quad whose lanes all hold the same source
   value the executed derivative yields exactly 0 in every lane, in both
   directions *)
Orig_C9 ==
  (Done /\ QuadConstant) => \A l \in Lanes : Out(l) = Fin(0)

(* C9 amended: on a fully active quad whose lanes all hold the same finite
   source value the executed derivative yields exactly 0 in every lane, in
   both directions (for an infinity or a NaN the difference is a NaN) *)
Thm_C9 ==
  /\ (Done /\ QuadConstant /\ quad[0].cls = "fin") =>
       \A l \in Lanes : Out(l) = Fin(0)
  /\ (Done /\ QuadConstant /\ quad[0].cls # "fin") =>
       \A l \in Lanes : Out(l) = NaN

Wit_C9 ==
  /\ Done
  /\ QuadConstant
  /\ quad[0] = Fin(1)
  /\ IsFddy(1)
  /\ Out(3) = Fin(0)

\* the lowering the quad executed
Last == calls[Len(calls)]
\* the lane ID an exchange instruction fetched from in lane l
FetchLane(ins, l, r) == ReadSrc(ins, 2, l, r).v

\* the same ALU operation with the direction flag swapped, lowered and
\* executed on the same quad
RECURSIVE RunSeq(_, _)
RunSeq(seq, r) == IF seq = <<>> THEN r ELSE RunSeq(Tail(seq), ExecInstr(Head(seq), r))
SwappedInstr ==
  [Last.instr EXCEPT !.op = IF @ = "nir_op_fddx" THEN "nir_op_fddy" ELSE "nir_op_fddx"]
SwappedStream == bi_emit_deriv_new(<<>>, Last.temp0, SwappedInstr, arch)
SwappedRegs == RunSeq(SwappedStream, LoadQuad(pan_src_index(Last.instr.src), quad))

(* C10 as stated: swapping the direction flag swaps which lane ID the two
   exchanges fetch first and second, and the paired neighbour's result is
   the negation of the lane's result *)
Orig_C10 ==
  Done =>
    LET g == Seg(Len(calls))
        ss == SwappedStream
        sr == RunSeq(ss, LoadQuad(pan_src_index(Last.instr.src), quad))
        first == [l \in Lanes |-> FetchLane(g[4], l, regs)]
        second == [l \in Lanes |-> FetchLane(g[5], l, regs)]
        neighbor == [l \in Lanes |-> IF l = first[l] THEN second[l] ELSE first[l]]
    IN \A l \in Lanes :
         /\ FetchLane(ss[4], l, sr) = second[l]
         /\ FetchLane(ss[5], l, sr) = first[l]
         /\ Out(neighbor[l]) = FNeg(Out(l))

(* C10 amended: swapping the direction flag changes only the mask and add
   constants of the 2nd and 3rd instructions, which trade places; in both
   directions the 4th instruction fetches from the masked (lower) lane ID
   and the 5th from that ID plus the add constant, every lane belongs to
   its own pair, and both lanes of a pair obtain the same result, the value
   of the higher lane minus the value of the lower lane *)
Thm_C10 ==
  Done =>
    LET g == Seg(Len(calls))
        ss == SwappedStream
        sr == RunSeq(ss, LoadQuad(pan_src_index(Last.instr.src), quad))
        first == [l \in Lanes |-> FetchLane(g[4], l, regs)]
        second == [l \in Lanes |-> FetchLane(g[5], l, regs)]
        neighbor == [l \in Lanes |-> IF l = first[l] THEN second[l] ELSE first[l]]
        mask == ConstantField(g[2].constant, 0)
        add == ConstantField(g[3].constant, 0)
    IN
    /\ \A n \in 1..6 :
         [ss[n] EXCEPT !.constant = u64_zero] = [g[n] EXCEPT !.constant = u64_zero]
    /\ ss[2].constant = g[3].constant
    /\ ss[3].constant = g[2].constant
    /\ mask # add
    /\ \A l \in Lanes :
         /\ first[l] = BitAnd(l, mask)
         /\ second[l] = first[l] + add
         /\ second[l] \in Lanes
         /\ FetchLane(ss[4], l, sr) = BitAnd(l, add)
         /\ FetchLane(ss[5], l, sr) = BitAnd(l, add) + mask
         /\ FetchLane(ss[5], l, sr) \in Lanes
         /\ l \in {first[l], second[l]}
         /\ neighbor[l] # l
         /\ Out(l) = FAdd(quad[second[l]], FNeg(quad[first[l]]))
         /\ Out(neighbor[l]) = Out(l)

Wit_C10 ==
  /\ Done
  /\ IsFddx(1)
  /\ quad[0] = Fin(0) /\ quad[1] = Fin(1)
  /\ FetchLane(instructions[4], 1, regs) = 0
  /\ FetchLane(instructions[5], 1, regs) = 1
  /\ FetchLane(SwappedStream[5], 1, SwappedRegs) = 3
  /\ Out(0) = Fin(1) /\ Out(1) = Fin(1)

(* ------------------------ the pre-scale payload ------------------------ *)
\* bit b of a non-negative integer
RECURSIVE BitOf(_, _)
BitOf(n, b) == IF b = 0 THEN n % 2 ELSE BitOf(n \div 2, b - 1)
\* the bits lo..hi of a non-negative integer, as a number
BitsOf(n, lo, hi) == (n \div Pow2(lo)) % Pow2(hi - lo + 1)
\* sign, biased exponent and fraction of the float32 pattern held in the
\* two 16-bit limbs lo16 (bits 0-15) and hi16 (bits 16-31)
Float32Fields(lo16, hi16) ==
  [sign |-> BitOf(hi16, 15),
   exponent |-> BitsOf(hi16, 7, 14),
   fraction |-> lo16 + 65536 * BitsOf(hi16, 0, 6)]
\* the fields of 1.0: positive, unbiased exponent 0, no fraction bits
IsFloat32One(f) == f.sign = 0 /\ f.exponent = 127 /\ f.fraction = 0

(* C11: in the exponential lowering the pre-scale instruction carries one
   64-bit payload whose bits 0-31 are the float32 pattern of 1.0
   (0x3f800000) and whose bits 32-63 are the integer 24, neither field
   spilling into the other; the multiplier operand reads the payload at bit
   offset 0 as float32, the shift operand reads it at bit offset 32 as
   int32, and the addend operand is the zero sentinel *)
Thm_C11 ==
  \A k \in CallIds : IsFexp2(k) =>
    LET m == Seg(k)[1]
        c == m.constant IN
    /\ m.type = "BI_FMA" /\ m.op = "mscale"
    /\ Len(c) = 4
    /\ \A i \in 1..4 : c[i] \in 0..65535
    /\ c[1] = 0 /\ c[2] = 16256
    /\ IsFloat32One(Float32Fields(c[1], c[2]))
    /\ c[3] = 24 /\ c[4] = 0
    /\ m.src[2] = BIR_INDEX_CONSTANT(0) /\ m.src_types[2] = "nir_type_float32"
    /\ m.src[4] = BIR_INDEX_CONSTANT(32) /\ m.src_types[4] = "nir_type_int32"
    /\ ConstantField(c, m.src[2].id) = 16256 * 65536
    /\ ConstantField(c, m.src[4].id) = 24
    /\ m.src[3] = BIR_INDEX_ZERO

Wit_C11 ==
  /\ Len(calls) = 2
  /\ IsFexp2(2)
  /\ Seg(2)[1].dest = bi_make_temp(calls[2].temp0)
  /\ calls[2].temp0 > 0
  /\ ConstantField(Seg(2)[1].constant, 32) = 24
  /\ Seg(2)[1].constant[2] = 16256

(* --------------------- several lowerings, one stream ------------------- *)
\* the ALU operations of a run of lowerings: any operation, source,
\* swizzle and destination, with 32-bit results
SeqInstrs(ops) == AluInstrs(ops, {32})

NextSeq ==
  \/ \E instr \in SeqInstrs({"nir_op_fexp2"}) : bi_emit_fexp2(instr)
  \/ \E instr \in SeqInstrs({"nir_op_flog2"}) : bi_emit_flog2(instr)
  \/ \E instr \in SeqInstrs({"nir_op_fddx", "nir_op_fddy"}) : bi_emit_deriv(instr)

SpecSeq == Init /\ [][NextSeq]_vars

\* the opcode classes of the fixed sequence of an ALU operation
FixedTypes(op) ==
  IF op = "nir_op_fexp2" THEN <<"BI_FMA", "BI_CONVERT", "BI_SPECIAL_ADD">>
  ELSE IF op = "nir_op_flog2" THEN
    <<"BI_FREXP", "BI_CONVERT", "BI_REDUCE_FMA", "BI_TABLE", "BI_FMA">>
  ELSE <<"BI_MOV", "BI_BITWISE", "BI_IMATH", "BI_SPECIAL_ADD",
         "BI_SPECIAL_ADD", "BI_ADD">>

(* C12: after any sequence of lowering calls on one context the stream is
   the concatenation, in call order, of each call's fixed sequence with no
   interleaving; no temporary is the destination of more than one
   instruction of the whole stream; and no instruction of one lowering
   references a temporary allocated by another lowering *)
Thm_C12 ==
  /\ (Len(calls) = 0) => (instructions = <<>>)
  /\ \A k \in CallIds :
       LET g == Seg(k)
           fixed == FixedTypes(calls[k].instr.op)
           own == TempsOf(k) IN
       /\ calls[k].first =
            (IF k = 1 THEN 1
             ELSE calls[k - 1].first + Len(FixedTypes(calls[k - 1].instr.op)))
       /\ [i \in 1..Len(g) |-> g[i].type] = fixed
       /\ g[Len(g)].dest = pan_dest_index(calls[k].instr.dest)
       /\ \A i \in 1..(Len(g) - 1) : g[i].dest \in own
       /\ \A i \in 1..Len(g) : \A s \in SrcSlots :
            /\ g[i].src[s].kind = "temp" => g[i].src[s] \in own
            /\ g[i].src[s].kind = "ir" => g[i].src[s] = pan_src_index(calls[k].instr.src)
       /\ \A j \in 1..(k - 1) : own \cap TempsOf(j) = {}
  /\ LET writers == {i \in 1..Len(instructions) : instructions[i].dest.kind = "temp"}
     IN Cardinality({instructions[i].dest : i \in writers}) = Cardinality(writers)

Wit_C12 ==
  /\ Len(calls) = 2
  /\ IsFlog2(1) /\ IsFexp2(2)
  /\ Len(instructions) = 8
  /\ calls[2].first = 6
  /\ instructions[7].src[1] = bi_make_temp(4)
  /\ instructions[5].src[1] = bi_make_temp(3)

(* ------------------------------ claim C13 ------------------------------ *)
\* the positions, in array order, of the primitives whose count is not 0
RECURSIVE NonZeroPrims(_, _)
NonZeroPrims(prims, n) ==
  IF n = 0 THEN <<>>
  ELSE IF prims[n].count # 0
       THEN Append(NonZeroPrims(prims, n - 1), n - 1)
       ELSE NonZeroPrims(prims, n - 1)

\* the index buffer is a buffer object without a backing resource
NullResource(a) == a.ib.present /\ a.ib.obj /\ ~a.ib.buffer

\* C13: when st_draw_vbo has returned, the cso_draw_vbo calls it issued are
\* exactly one per primitive whose count is not 0, in the order of the prims
\* array, each with that primitive's count, and none for a primitive of
\* count 0; when the index buffer is a buffer object without a backing
\* resource no call was issued at all; and when no index buffer was given
\* each call carries min_index = start and max_index = start + count - 1 of
\* its primitive.
Thm_C13 ==
  draw_pc = "done" =>
    LET a == draw_args
        prims == a.prims IN
    IF NullResource(a) THEN drawn = <<>>
    ELSE
      /\ [k \in 1..Len(drawn) |-> drawn[k].i] = NonZeroPrims(prims, Len(prims))
      /\ \A k \in 1..Len(drawn) :
           LET prim == prims[drawn[k].i + 1] IN
           /\ prim.count # 0
           /\ drawn[k].draw.count = prim.count
           /\ drawn[k].info.mode = prim.mode
           /\ ~a.ib.present =>
                /\ drawn[k].draw.start = prim.start
                /\ drawn[k].info.min_index = prim.start
                /\ drawn[k].info.max_index = prim.start + prim.count - 1
      /\ \A n \in 1..Len(prims) :
           Cardinality({k \in 1..Len(drawn) : drawn[k].i = n - 1})
             = (IF prims[n].count = 0 THEN 0 ELSE 1)

\* a non-indexed draw of two primitives, the first of count 0, has returned
\* after one call, for the second primitive
Wit_C13 ==
  /\ draw_pc = "done"
  /\ ~draw_args.ib.present
  /\ Len(draw_args.prims) = 2
  /\ draw_args.prims[1].count = 0
  /\ draw_args.prims[2].count = 2
  /\ draw_args.prims[2].start = 1
  /\ Len(drawn) = 1
  /\ drawn[1].i = 1
  /\ drawn[1].info.min_index = 1
  /\ drawn[1].info.max_index = 2

====
